---- MODULE Spec2Model ----
(***************************************************************************)
(* Banner rendering pipeline of firebot-nodejs-api.                        *)
(*                                                                         *)
(* FirebotIntegration (token cache, authenticate, authenticatedRequest)    *)
(* and BannerService.generateBanner / fetchData, as one state machine.     *)
(* Network I/O is the only suspension point: every action is one           *)
(* continuation of the Node.js event loop, from the arrival of an I/O      *)
(* result to the next I/O call.                                            *)
(***************************************************************************)
EXTENDS Integers, Sequences, FiniteSets, TLC

(* ------------------------------ bounds -------------------------------- *)
\* the clock runs from 0 to MaxNow seconds, in steps of ClockStep seconds
MaxNow == 150
ClockStep == 150
\* number of tokens the provider hands out
MaxTokens == 2

(* ------------------------- FirebotIntegration ------------------------- *)
\* the authenticatedRequest calls of one fetchData: fetchRashidLocation and
\* fetchWorldChanges
RashidCall == 1
ChangesCall == 2
Calls == {RashidCall, ChangesCall}

\* `private token: string | null = null`
NoToken == 0
\* `private tokenExpiry: Date | null = null`
NoExpiry == -1000000
\* `(data.expires_in - 300) * 1000`, in seconds
Skew == 300
\* expires_in values the provider answers a login with, in seconds
ExpiresInValues == {150, 450, 600}

NoRes == [none |-> TRUE]
Ok(d) == [ok |-> TRUE, data |-> d]
Err(e) == [ok |-> FALSE, err |-> e]

\* payloads of GET /api/gamedata/rashid
RashidPayloads == {[city |-> "Carlin", place |-> "Depot"]}

\* a world-change element: a string, or a record with type/name/description
StrChange(s) == [k |-> "str", v |-> s, type |-> "", name |-> "", description |-> "", link |-> ""]
ObjChange(t, n, d) == [k |-> "obj", v |-> "", type |-> t, name |-> n, description |-> d, link |-> ""]
\* payloads of GET /api/gamedata/active-world-changes
ChangesPayloads ==
  { [changes |-> <<StrChange("Oriental Trader")>>],
    [changes |-> <<ObjChange("event", "Lightbearer", "")>>] }

PayloadsOf(c) == IF c = RashidCall THEN RashidPayloads ELSE ChangesPayloads

IdleCall == [pc |-> "idle", tok |-> NoToken, logins |-> 0, gets |-> 0,
             hit |-> FALSE, got401 |-> FALSE, res |-> NoRes]

VARIABLES
  credsConfigured,   \* FIREBOT_API_EMAIL and FIREBOT_API_PASSWORD are set
  now,               \* Date.now(), seconds
  token,             \* FirebotIntegration.token
  tokenExpiry,       \* FirebotIntegration.tokenExpiry
  providerExpiry,    \* login time + expires_in of the login that filled the cache
  ntokens,           \* tokens handed out by the provider so far
  call               \* the authenticatedRequest call of each caller

authVars == <<credsConfigured, now, token, tokenExpiry, providerExpiry, ntokens, call>>

(* ---------------------------- BannerService --------------------------- *)
\* the array handed to Promise.all in fetchData, in source order
Sources == <<"world", "guild", "boss", "rashid", "changes">>
SlotOf(s) == CHOOSE i \in 1..Len(Sources) : Sources[i] = s
\* the sources read from TibiaData through ApiService
TibiaSources == {"world", "guild", "boss"}
SourceOf(c) == IF c = RashidCall THEN "rashid" ELSE "changes"

WorldPayloads ==
  { [world |-> [name |-> "Antica", pvp_type |-> "Open PvP", players_online |-> 7,
                record_players |-> 9, location |-> "Europe"]] }
GuildPayloads ==
  { [guild |-> [name |-> "Redd Alliance", players_online |-> 3, members_total |-> 4,
                founded |-> "2020-01-01", description |-> "hi"]],
    [information |-> "no guild"] }
BossPayloads ==
  { [boostable_bosses |-> [boosted |-> [name |-> "Ferumbras", image_url |-> "ferumbras.gif"]]] }

TibiaPayloads(s) ==
  IF s = "world" THEN WorldPayloads
  ELSE IF s = "guild" THEN GuildPayloads
  ELSE BossPayloads

Pending == [pending |-> TRUE]
NoData == [nodata |-> TRUE]

VARIABLES
  rpc,         \* where generateBanner is
  rerr,        \* the error generateBanner threw
  world,       \* generateBanner's world argument
  guildName,   \* generateBanner's guildName argument
  showBoss,    \* options.showBoss
  fetch,       \* the TibiaData fetches of fetchData
  response,    \* what TibiaData answered each of them
  results,     \* the results array of Promise.all
  data,        \* the BannerData fetchData returned
  bossImage,   \* getBossImage returned a buffer
  lastSettled  \* the source whose settling resolved Promise.all

bannerVars ==
  <<rpc, rerr, world, guildName, showBoss, fetch, response, results, data, bossImage,
    lastSettled>>

(* ------------------------ single operations --------------------------- *)
\* the operations that are functions of their arguments (asset resolution,
\* checkForYasir, layout, composition, the HTTP handler) are applied one at
\* a time to arguments drawn from bounded sets
NoArg == [none |-> TRUE]
NotApplied == [done |-> FALSE]
Applied(v) == [done |-> TRUE, val |-> v]

VARIABLES
  fn,    \* the operation applied
  arg,   \* its arguments
  out    \* what it returned

fnVars == <<fn, arg, out>>
vars == <<authVars, bannerVars, fnVars>>

\* the comparison of line 112 turned round
TokenValidInverted == token # NoToken /\ tokenExpiry # NoExpiry /\ tokenExpiry < now

\* authenticate, line 112: the cached token is still usable
TokenValid == token # NoToken /\ tokenExpiry # NoExpiry /\ tokenExpiry > now

\* line 135 without the 300 s margin
StoredExpiryNoSkew(expires_in) == now + expires_in

\* authenticate, line 135-136: the expiry stored for a login answered now
StoredExpiry(expires_in) == now + (expires_in - Skew)

\* the call right after `await this.authenticate()` of line 148 ran up to its
\* first suspension point: cache hit (GET issued), credentials missing
\* (rethrown by line 178), or login exchange issued
StartedCall ==
  IF TokenValid
  THEN [IdleCall EXCEPT !.pc = "get1", !.tok = token, !.gets = 1, !.hit = TRUE]
  ELSE IF ~credsConfigured
  THEN [IdleCall EXCEPT !.pc = "failed", !.res = Err("NoCredentials")]
  ELSE [IdleCall EXCEPT !.pc = "login1", !.logins = 1]

(* ------------------------------ fetchData ------------------------------ *)
\* `change.includes('Oriental Trader')`
IncludesMarker(str) == str \in {"Oriental Trader", "Yasir the Oriental Trader is in town"}

\* Array.prototype.some over records: "found" at the first record carrying
\* the marker in one of the fields, "threw" at a null element reached
\* before it (typeof null === 'object', then a property read of null)
RECURSIVE SomeObject(_, _)
SomeObject(list, fields) ==
  IF list = <<>> THEN "none"
  ELSE LET ch == Head(list) IN
       IF ch.k = "null" THEN "threw"
       ELSE IF ch.k = "obj" /\ \E f \in fields : ch[f] # "" /\ IncludesMarker(ch[f])
       THEN "found"
       ELSE SomeObject(Tail(list), fields)

checkForYasir(worldChanges) ==
  LET hasChanges == "changes" \in DOMAIN worldChanges
      hasWorld == "world_changes" \in DOMAIN worldChanges
      strHit == hasChanges /\ \E i \in 1..Len(worldChanges.changes) :
                  /\ worldChanges.changes[i].k = "str"
                  /\ IncludesMarker(worldChanges.changes[i].v)
      objHit == IF hasChanges
                THEN SomeObject(worldChanges.changes, {"type", "name", "description"})
                ELSE "none"
      worldHit == IF hasWorld
                  THEN SomeObject(worldChanges.world_changes, {"name", "link", "description"})
                  ELSE "none"
  IN  IF strHit THEN TRUE
      ELSE IF objHit = "found" THEN TRUE
      ELSE IF objHit = "threw" THEN FALSE
      ELSE worldHit = "found"

\* a world placeholder that does not echo the requested name
PlaceholderUnnamed(s) ==
  IF s = "world"
  THEN [world |-> [name |-> "Unknown", pvp_type |-> "Unknown", players_online |-> 0,
                   record_players |-> 0, location |-> "Unknown"]]
  ELSE IF s = "boss" THEN [boostable_bosses |-> [boosted |-> [name |-> "Unknown"]]]
  ELSE IF s = "rashid" THEN [city |-> "Unknown", place |-> "Unknown"]
  ELSE [changes |-> <<>>]

\* the value each ...Safe wrapper returns in place of a failed fetch
Placeholder(s) ==
  IF s = "world"
  THEN [world |-> [name |-> world, pvp_type |-> "Unknown", players_online |-> 0,
                   record_players |-> 0, location |-> "Unknown"]]
  ELSE IF s = "boss" THEN [boostable_bosses |-> [boosted |-> [name |-> "Unknown"]]]
  ELSE IF s = "rashid" THEN [city |-> "Unknown", place |-> "Unknown"]
  ELSE [changes |-> <<>>]

\* the guild fetch wrapped like the other four
SafeAll(s, r) == IF r.ok THEN Ok(r.data) ELSE Ok(Placeholder(s))

\* fetchWorldInfoSafe .. fetchWorldChangesSafe: how the promise of source s
\* settles when its fetch ended with r
Safe(s, r) ==
  IF r.ok THEN Ok(r.data)
  ELSE IF s = "guild" THEN Err("GuildNotFound")
  ELSE Ok(Placeholder(s))

\* results collected in completion order
SlotByCompletion(s, res) == Cardinality({i \in 1..Len(Sources) : res[i] # Pending}) + 1

\* the slot of the Promise.all results array a settled source is written to
PromiseAllSlot(s, res) == SlotOf(s)

AllFulfilled(res) == \A i \in 1..Len(Sources) : res[i] # Pending /\ res[i].ok

\* the value a fulfilled slot carries
ValueOf(slot) == IF "data" \in DOMAIN slot THEN slot.data ELSE slot

\* `new Date().toLocaleString('pt-BR', ...)`
UpdateDate == [locale |-> "pt-BR", at |-> now]

\* lines 202-241: destructuring of the results array and the returned object
BannerDataOf(res) ==
  [worldInfo |-> ValueOf(res[1]), guildInfo |-> ValueOf(res[2]),
   boosted |-> ValueOf(res[3]), rashidLocation |-> ValueOf(res[4]),
   worldChanges |-> ValueOf(res[5]),
   yasirIsActive |-> checkForYasir(ValueOf(res[5])), updateDate |-> UpdateDate]

\* getBossImage, line 316
HasImageUrl(boosted) ==
  /\ "boostable_bosses" \in DOMAIN boosted
  /\ "boosted" \in DOMAIN boosted.boostable_bosses
  /\ "image_url" \in DOMAIN boosted.boostable_bosses.boosted

\* resolving as soon as the guild promise is fulfilled
JoinReadyGuildOnly(res) == res[2] # Pending /\ res[2].ok

\* Promise.all may resolve: every source has settled
JoinReady(res) == AllFulfilled(res)

\* source s settled with r while generateBanner awaits fetchData: Promise.all
\* rejects at the first rejection, resolves once every promise is fulfilled,
\* and generateBanner runs on to its next suspension point
Settled(s, r) ==
  LET res2 == [results EXCEPT ![PromiseAllSlot(s, results)] = Safe(s, r)] IN
  /\ results' = res2
  /\ lastSettled' = IF rpc = "fetchData" /\ JoinReady(res2) THEN s ELSE lastSettled
  /\ UNCHANGED <<world, guildName, showBoss, bossImage>>
  /\ IF rpc = "fetchData" /\ ~Safe(s, r).ok
     THEN rpc' = "failed" /\ rerr' = "GuildNotFound" /\ data' = NoData
     ELSE IF rpc = "fetchData" /\ JoinReady(res2)
     THEN IF "guild" \notin DOMAIN ValueOf(res2[2])
          THEN rpc' = "failed" /\ rerr' = "GuildNotFound" /\ data' = NoData
          ELSE /\ data' = BannerDataOf(res2)
               /\ rerr' = ""
               /\ rpc' = IF showBoss /\ HasImageUrl(ValueOf(res2[3]))
                         THEN "bossImage" ELSE "rashidImage"
     ELSE UNCHANGED <<rpc, rerr, data>>

(* -------------------------------- Init -------------------------------- *)
Init ==
  /\ credsConfigured \in BOOLEAN
  /\ now = 0
  /\ token = NoToken
  /\ tokenExpiry = NoExpiry
  /\ providerExpiry = NoExpiry
  /\ ntokens = 0
  /\ call = [c \in Calls |-> IdleCall]
  /\ rpc = "idle"
  /\ rerr = ""
  /\ world = ""
  /\ guildName = ""
  /\ showBoss = TRUE
  /\ fetch = [s \in TibiaSources |-> "idle"]
  /\ response = [s \in TibiaSources |-> NoRes]
  /\ results = [i \in 1..Len(Sources) |-> Pending]
  /\ data = NoData
  /\ bossImage = FALSE
  /\ lastSettled = "none"
  /\ fn = "none"
  /\ arg = NoArg
  /\ out = NotApplied

(* ------------------------------ actions ------------------------------- *)
\* time passes
Tick ==
  /\ UNCHANGED fnVars
  /\ now + ClockStep <= MaxNow
  /\ now' = now + ClockStep
  /\ UNCHANGED <<credsConfigured, token, tokenExpiry, providerExpiry, ntokens, call>>
  /\ UNCHANGED bannerVars

InFlight(c) == call[c].pc \in {"login1", "get1", "login2", "get2"}

\* the effect of call c reaching state nc on the fetchData that started it:
\* fetchRashidLocation / fetchWorldChanges rethrow, the ...Safe wrapper settles
CallEffect(c, nc) ==
  IF nc.pc \in {"done", "failed"}
  THEN /\ Settled(SourceOf(c), nc.res)
       /\ UNCHANGED <<fetch, response>>
  ELSE UNCHANGED bannerVars

\* authenticate, lines 122-139, then the GET of line 149 or 165
LoginSucceeds(c, expires_in) ==
  /\ UNCHANGED fnVars
  /\ call[c].pc \in {"login1", "login2"}
  /\ ntokens < MaxTokens
  /\ ntokens' = ntokens + 1
  /\ token' = ntokens + 1
  /\ tokenExpiry' = StoredExpiry(expires_in)
  /\ providerExpiry' = now + expires_in
  /\ call' = [call EXCEPT ![c].pc = IF call[c].pc = "login1" THEN "get1" ELSE "get2",
                           ![c].tok = ntokens + 1,
                           ![c].gets = call[c].gets + 1]
  /\ UNCHANGED <<credsConfigured, now>>
  /\ UNCHANGED bannerVars

\* authenticate, lines 129-131 and 140-143: the exchange is rejected or its
\* answer carries no access_token
LoginFails(c) ==
  /\ UNCHANGED fnVars
  /\ call[c].pc \in {"login1", "login2"}
  /\ LET nc == [call[c] EXCEPT !.pc = "failed",
                               !.res = IF call[c].pc = "login1"
                                       THEN Err("AuthFailed") ELSE Err("RetryAuthFailed")]
     IN  call' = [call EXCEPT ![c] = nc] /\ CallEffect(c, nc)
  /\ UNCHANGED <<credsConfigured, now, token, tokenExpiry, providerExpiry, ntokens>>

\* lines 156 and 172: the GET is answered with data
GetSucceeds(c, d) ==
  /\ UNCHANGED fnVars
  /\ call[c].pc \in {"get1", "get2"}
  /\ LET nc == [call[c] EXCEPT !.pc = "done", !.res = Ok(d)]
     IN  call' = [call EXCEPT ![c] = nc] /\ CallEffect(c, nc)
  /\ UNCHANGED <<credsConfigured, now, token, tokenExpiry, providerExpiry, ntokens>>

\* the 401 branch re-entering the whole request instead of retrying once
After401Again(c) ==
  [call[c] EXCEPT !.pc = "login1", !.got401 = TRUE, !.logins = call[c].logins + 1]

\* the call after the 401 branch of lines 158-164 ran to its suspension point
After401(c) ==
  IF ~credsConfigured
  THEN [call[c] EXCEPT !.pc = "failed", !.got401 = TRUE, !.res = Err("RetryAuthFailed")]
  ELSE [call[c] EXCEPT !.pc = "login2", !.got401 = TRUE, !.logins = call[c].logins + 1]

\* lines 158-164: the first GET is answered 401
GetUnauthorized(c) ==
  /\ UNCHANGED fnVars
  /\ call[c].pc = "get1"
  /\ token' = NoToken
  /\ tokenExpiry' = NoExpiry
  /\ providerExpiry' = NoExpiry
  /\ call' = [call EXCEPT ![c] = After401(c)]
  /\ CallEffect(c, After401(c))
  /\ UNCHANGED <<credsConfigured, now, ntokens>>

\* a failed GET that drops the cached token like the 401 branch does
GetFailsClearing(c) ==
  /\ UNCHANGED fnVars
  /\ call[c].pc = "get1"
  /\ token' = NoToken
  /\ tokenExpiry' = NoExpiry
  /\ providerExpiry' = NoExpiry
  /\ LET nc == [call[c] EXCEPT !.pc = "failed", !.res = Err("RequestFailed")]
     IN  call' = [call EXCEPT ![c] = nc] /\ CallEffect(c, nc)
  /\ UNCHANGED <<credsConfigured, now, ntokens>>

\* line 178: the first GET fails otherwise
GetFails(c) ==
  /\ UNCHANGED fnVars
  /\ call[c].pc = "get1"
  /\ LET nc == [call[c] EXCEPT !.pc = "failed", !.res = Err("RequestFailed")]
     IN  call' = [call EXCEPT ![c] = nc] /\ CallEffect(c, nc)
  /\ UNCHANGED <<credsConfigured, now, token, tokenExpiry, providerExpiry, ntokens>>

\* lines 173-175: the retried GET fails, with a 401 or otherwise
RetryFails(c, status) ==
  /\ UNCHANGED fnVars
  /\ call[c].pc = "get2"
  /\ LET nc == [call[c] EXCEPT !.pc = "failed",
                               !.res = IF status = 401 THEN Err("RetryRejected")
                                       ELSE Err("RetryFailed")]
     IN  call' = [call EXCEPT ![c] = nc] /\ CallEffect(c, nc)
  /\ UNCHANGED <<credsConfigured, now, token, tokenExpiry, providerExpiry, ntokens>>

(* --------------------------- generateBanner --------------------------- *)
BannerIdle ==
  /\ rpc \in {"idle", "done", "failed"}
  /\ \A s \in TibiaSources : fetch[s] # "inflight"
  /\ ~InFlight(RashidCall) /\ ~InFlight(ChangesCall)

\* lines 27-42: a request arrives and awaits loadAssets
GenerateBanner(w, g, sb) ==
  /\ UNCHANGED fnVars
  /\ BannerIdle
  /\ world' = w /\ guildName' = g /\ showBoss' = sb
  /\ rpc' = "loadAssets"
  /\ rerr' = ""
  /\ fetch' = [s \in TibiaSources |-> "idle"]
  /\ response' = [s \in TibiaSources |-> NoRes]
  /\ results' = [i \in 1..Len(Sources) |-> Pending]
  /\ data' = NoData
  /\ bossImage' = FALSE
  /\ lastSettled' = "none"
  /\ call' = [call EXCEPT ![RashidCall] = IdleCall, ![ChangesCall] = IdleCall]
  /\ UNCHANGED <<credsConfigured, now, token, tokenExpiry, providerExpiry, ntokens>>

\* lines 125-131: no base path yields both assets
LoadAssetsFails ==
  /\ UNCHANGED fnVars
  /\ rpc = "loadAssets"
  /\ rpc' = "failed"
  /\ rerr' = "Asset loading failed"
  /\ UNCHANGED <<world, guildName, showBoss, fetch, response, results, data, bossImage,
                 lastSettled>>
  /\ UNCHANGED authVars

\* the results array right after the five wrappers were called: a Firebot
\* call that failed before its first suspension point has settled already
LaunchedResults ==
  LET r0 == [i \in 1..Len(Sources) |-> Pending]
      r1 == IF StartedCall.pc = "failed"
            THEN [r0 EXCEPT ![PromiseAllSlot("rashid", r0)] = Safe("rashid", StartedCall.res)]
            ELSE r0
  IN  IF StartedCall.pc = "failed"
      THEN [r1 EXCEPT ![PromiseAllSlot("changes", r1)] = Safe("changes", StartedCall.res)]
      ELSE r1

\* lines 42-43 and 138-208: the assets are loaded, fetchData checks its
\* arguments and calls the five wrappers, Promise.all awaits them
LoadAssetsDone ==
  /\ UNCHANGED fnVars
  /\ rpc = "loadAssets"
  /\ IF world = "" \/ guildName = ""
     THEN /\ rpc' = "failed"
          /\ rerr' = IF world = "" THEN "World parameter is required"
                     ELSE "Guild name parameter is required"
          /\ UNCHANGED <<fetch, results, call, lastSettled>>
     ELSE /\ rpc' = "fetchData"
          /\ rerr' = ""
          /\ fetch' = [s \in TibiaSources |-> "inflight"]
          /\ call' = [call EXCEPT ![RashidCall] = StartedCall, ![ChangesCall] = StartedCall]
          /\ results' = LaunchedResults
          /\ lastSettled' = "none"
  /\ UNCHANGED <<world, guildName, showBoss, response, data, bossImage>>
  /\ UNCHANGED <<credsConfigured, now, token, tokenExpiry, providerExpiry, ntokens>>

\* ApiService.fetchWorldInfo / fetchGuildInfo / fetchBoostedBosses answer
TibiaResponse(s, r) ==
  /\ UNCHANGED fnVars
  /\ fetch[s] = "inflight"
  /\ fetch' = [fetch EXCEPT ![s] = "settled"]
  /\ response' = [response EXCEPT ![s] = r]
  /\ Settled(s, r)
  /\ UNCHANGED authVars

\* line 46 and getBossImage: the boss image download ends
BossImageDone(ok) ==
  /\ UNCHANGED fnVars
  /\ rpc = "bossImage"
  /\ rpc' = "rashidImage"
  /\ bossImage' = ok
  /\ UNCHANGED <<rerr, world, guildName, showBoss, fetch, response, results, data,
                 lastSettled>>
  /\ UNCHANGED authVars

\* lines 49-80: getRashidImage returns, generateBaseStructureSVG lays the
\* banner out and createFinalImageWithText starts compositing
RashidImageDone ==
  /\ UNCHANGED fnVars
  /\ rpc = "rashidImage"
  /\ rpc' = "compose"
  /\ UNCHANGED <<rerr, world, guildName, showBoss, fetch, response, results, data,
                 bossImage, lastSettled>>
  /\ UNCHANGED authVars

\* createFinalImageWithText returns the PNG buffer or throws
ComposeDone(ok) ==
  /\ UNCHANGED fnVars
  /\ rpc = "compose"
  /\ rpc' = IF ok THEN "done" ELSE "failed"
  /\ rerr' = IF ok THEN "" ELSE "Final image creation failed"
  /\ UNCHANGED <<world, guildName, showBoss, fetch, response, results, data, bossImage,
                 lastSettled>>
  /\ UNCHANGED authVars

(* ---------------------------- specification --------------------------- *)
Next ==
  \/ Tick
  \/ \E c \in Calls, e \in ExpiresInValues : LoginSucceeds(c, e)
  \/ \E c \in Calls : LoginFails(c)
  \/ \E c \in Calls : \E d \in PayloadsOf(c) : GetSucceeds(c, d)
  \/ \E c \in Calls : GetUnauthorized(c)
  \/ \E c \in Calls : GetFails(c)
  \/ \E c \in Calls, status \in {401, 500} : RetryFails(c, status)
  \/ \E w \in {"", "Antica"}, g \in {"", "Redd Alliance"}, sb \in BOOLEAN : GenerateBanner(w, g, sb)
  \/ LoadAssetsFails
  \/ LoadAssetsDone
  \/ \E s \in TibiaSources : \E r \in {Ok(p) : p \in TibiaPayloads(s)} \cup {Err("network")} :
        TibiaResponse(s, r)
  \/ \E ok \in BOOLEAN : BossImageDone(ok)
  \/ RashidImageDone
  \/ \E ok \in BOOLEAN : ComposeDone(ok)

Spec == Init /\ [][Next]_vars

(* ------------------- arguments of single operations ------------------- *)
\* longest world-change list handed to checkForYasir
MaxChanges == 3
\* largest guild head count handed to the percentage computation
MaxMembers == 4

SeqsUpTo(S, n) == UNION {[1..k -> S] : k \in 0..n}

\* a null element of a JSON array
NullChange == [k |-> "null", v |-> "", type |-> "", name |-> "", description |-> "", link |-> ""]
ChangeElements ==
  { StrChange("Oriental Trader"), StrChange("Full Moon"),
    ObjChange("event", "Yasir the Oriental Trader is in town", ""),
    ObjChange("event", "Lightbearer", "Oriental Trader"),
    ObjChange("event", "Lightbearer", ""),
    NullChange }
\* `worldChanges` is null
NullPayload == [isNull |-> TRUE]
YasirInputs ==
  {[changes |-> l] : l \in SeqsUpTo(ChangeElements, MaxChanges)}
    \cup {[world_changes |-> l] : l \in SeqsUpTo(ChangeElements, MaxChanges)}
    \cup {NullPayload}

(* ----------------------------- loadAssets ----------------------------- *)
\* lines 91-96: the four base paths, in the order they are tried
possiblePaths == 1..4
\* lines 102-103 and 111, 114: the file names tried in a base path
logoFile == "logo-theme.png"
backgroundFile == "background-theme.png"
AssetFiles == {logoFile, "logo.png", backgroundFile, "image.png"}
At(loc, file) == [loc |-> loc, file |-> file]
\* a file system: the files fs.readFile can read
FileSystems == SUBSET {At(loc, f) : loc \in possiblePaths, f \in AssetFiles}
NotRead == [loc |-> 0, file |-> ""]

\* `readImageAsBase64(join(basePath, themed)).catch(() =>
\*    readImageAsBase64(join(basePath, generic)))`
ReadWithFallback(files, loc, themed, generic) ==
  IF At(loc, themed) \in files THEN At(loc, themed)
  ELSE IF At(loc, generic) \in files THEN At(loc, generic)
  ELSE NotRead

\* lines 105-123: the loop over the base paths; Promise.all rejects, and the
\* loop moves on, unless both reads of this base path succeed
RECURSIVE LoadFrom(_, _)
LoadFrom(files, loc) ==
  IF loc \notin possiblePaths
  THEN Err("Asset loading failed: Failed to load required assets")
  ELSE LET logo == ReadWithFallback(files, loc, logoFile, "logo.png")
           background == ReadWithFallback(files, loc, backgroundFile, "image.png")
       IN  IF logo # NotRead /\ background # NotRead
           THEN Ok([fbotImageBase64 |-> logo, backgroundImageBase64 |-> background])
           ELSE LoadFrom(files, loc + 1)

loadAssets(files) == LoadFrom(files, 1)

(* -------------------------- online percentage -------------------------- *)
\* a JavaScript number: a finite integer, NaN or Infinity
Num(n) == [k |-> "num", v |-> n]
NaN == [k |-> "NaN", v |-> 0]
Infinity == [k |-> "Infinity", v |-> 0]

\* Math.round of a non-negative quotient a / b: halves round up
RoundDiv(a, b) == (2 * a + b) \div (2 * b)

\* lines 462-464 and 548-550:
\* `Math.round((players_online / members_total) * 100)`; x / 0 is Infinity
\* for x > 0 and NaN for x = 0, and Math.round keeps both
onlinePercentage(players_online, members_total) ==
  IF members_total = 0
  THEN IF players_online = 0 THEN NaN ELSE Infinity
  ELSE Num(RoundDiv(100 * players_online, members_total))

\* line 515: `width * 0.58 * (onlinePercentage / 100)`, in hundredths of
\* the bar, and line 687: the `(${onlinePercentage}%)` label
ProgressOf(players_online, members_total) ==
  LET pct == onlinePercentage(players_online, members_total)
  IN  [fill |-> pct, label |-> pct]

(* ------------------------ layout and composition ----------------------- *)
Layer(kind, name) == [kind |-> kind, name |-> name]

\* generateBaseStructureSVG, lines 497-515: the elements of the base SVG in
\* document order, which is their paint order
BaseStructure ==
  << Layer("background", "bgGradient"), Layer("panel", "header"),
     Layer("panel", "content"), Layer("panel", "stats"),
     Layer("progress", "progressBarBg"), Layer("progress", "progressBarFill") >>

\* line 46 and getBossImage: a buffer only if the flag is set, the boss has
\* an image_url and the download and decoding succeed
BossImageOf(sb, boosted, downloaded) == sb /\ HasImageUrl(boosted) /\ downloaded

\* what getRashidImage hands to the compositor: a buffer sharp can resize,
\* one it cannot, or null
RashidImages == {"buffer", "undecodable", "null"}

\* createFinalImageWithText, lines 570-786: the `composites` array in push
\* order, which is the order sharp paints it over the base image
Composites(showLogo, boss, rashid) ==
  (IF showLogo THEN <<Layer("image", "logo")>> ELSE <<>>)
    \o (IF boss THEN <<Layer("image", "boss")>> ELSE <<>>)
    \o (IF rashid = "buffer" THEN <<Layer("image", "rashid")>> ELSE <<>>)
    \o <<Layer("panel", "textBg")>>
    \o <<Layer("text", "text")>>

\* lines 646-786: the <text> elements of the text overlay
TextItems(guild) ==
  <<"worldName", "guildName", "updateDate", "membersOnline", "progressText">>
    \o (IF guild.founded # "" THEN <<"founded">> ELSE <<>>)
    \o (IF guild.description # "" THEN <<"description">> ELSE <<>>)
    \o <<"playersOnline", "record", "location", "bossLabel", "bossName",
         "rashidLabel", "rashidName", "rashidCity", "yasirLabel", "yasirStatus", "footer">>

\* line 738: `boosted?.boostable_bosses?.boosted?.name || 'N/A'`
BossNameOf(boosted) ==
  IF "boostable_bosses" \in DOMAIN boosted /\ boosted.boostable_bosses.boosted.name # ""
  THEN boosted.boostable_bosses.boosted.name
  ELSE "N/A"

\* the banner createFinalImageWithText composes from the base SVG
createFinalImageWithText(a) ==
  [layers |-> BaseStructure
                \o Composites(a.showLogo, BossImageOf(a.showBoss, a.boosted, a.downloaded),
                              a.rashid),
   text |-> TextItems(a.guild),
   bossName |-> BossNameOf(a.boosted)]

LayerInputs ==
  [showLogo : BOOLEAN, showBoss : BOOLEAN,
   boosted : BossPayloads \cup {Placeholder("boss")},
   downloaded : BOOLEAN, rashid : RashidImages,
   guild : {[founded |-> f, description |-> d] : f \in {"", "2020-01-01"}, d \in {"", "hi"}}]

(* ----------------------------- translations ---------------------------- *)
\* a property value: a string or undefined
Str(x) == [t |-> "string", s |-> x]
Undefined == [t |-> "undefined", s |-> ""]

\* constants.ts, lines 3-24: the labels the text overlay reads
translationsPt ==
  [membersOnline |-> Str("Membros Online"), boostedBoss |-> Str("Boss do Dia"),
   playersOnline |-> Str("Jogadores Online"), record |-> Str("Recorde"),
   founded |-> Str("Fundado em")]
translationsEn ==
  [membersOnline |-> Str("Members Online"), boostedBoss |-> Str("Boosted Boss"),
   playersOnline |-> Str("Players Online"), record |-> Str("Record"),
   founded |-> Str("Founded")]
\* a value inherited from Object.prototype: truthy, none of the labels
Inherited ==
  [membersOnline |-> Undefined, boostedBoss |-> Undefined, playersOnline |-> Undefined,
   record |-> Undefined, founded |-> Undefined]
\* property names every object literal inherits
ObjectPrototypeKeys == {"constructor", "toString", "valueOf", "hasOwnProperty", "__proto__"}
LangValues == {"pt", "en", "es", "de", ""} \cup ObjectPrototypeKeys

\* line 41: `translations[lang] || translations.pt`
TranslationsFor(lang) ==
  IF lang = "pt" THEN translationsPt
  ELSE IF lang = "en" THEN translationsEn
  ELSE IF lang \in ObjectPrototypeKeys THEN Inherited
  ELSE translationsPt

\* `${this.escapeXml(x)}` of a label: '' for a falsy x; the labels of the
\* table hold none of the five escaped characters
EscapedLabel(x) == IF x.t = "undefined" \/ x.s = "" THEN "" ELSE x.s
\* `${x}`
Interpolated(x) == IF x.t = "undefined" THEN "undefined" ELSE x.s

\* lines 681, 696, 717, 722, 733: the label texts of the text overlay
Labels(lang) ==
  LET t == TranslationsFor(lang)
  IN  [membersOnline |-> EscapedLabel(t.membersOnline),
       boostedBoss |-> EscapedLabel(t.boostedBoss),
       playersOnline |-> Interpolated(t.playersOnline),
       record |-> Interpolated(t.record),
       founded |-> IF t.founded.t = "undefined" \/ t.founded.s = ""
                   THEN "Fundado em" ELSE t.founded.s]

(* ---------------------------- getGuildBanner -------------------------- *)
\* an optional query parameter that is absent
NoOption == 0
WidthValues == {NoOption, 799, 800, 2000, 2001}
HeightValues == {NoOption, 199, 200, 800, 801}
Queries == [hasWorld : BOOLEAN, hasGuild : BOOLEAN, width : WidthValues, height : HeightValues]
\* how generateBanner ends: with the PNG buffer, or with the error of a stage
Outcomes ==
  {"png", "Asset loading failed", "GuildNotFound", "SVG generation failed",
   "Final image creation failed"}
ControllerInputs == [query : Queries, outcome : Outcomes]

\* GenerateBannerDto under the ValidationPipe of the @Query parameter:
\* world and guild are strings, width is absent or in 800..2000, height is
\* absent or in 200..800
Validates(q) ==
  /\ q.hasWorld /\ q.hasGuild
  /\ q.width = NoOption \/ q.width \in 800..2000
  /\ q.height = NoOption \/ q.height \in 200..800

\* generateBanner lines 33-39 and generateBaseStructureSVG line 468: the
\* canvas is the <svg> of width x height, 1200 x 300 by default
CanvasOf(q) ==
  [width |-> IF q.width = NoOption THEN 1200 ELSE q.width,
   height |-> IF q.height = NoOption THEN 300 ELSE q.height]

BadRequest ==
  [status |-> 400, contentType |-> "application/json", body |-> [message |-> "Bad Request"]]

\* a handler that sets the image headers before awaiting generateBanner
getGuildBannerHeadersFirst(q, outcome) ==
  IF ~Validates(q) THEN BadRequest
  ELSE IF outcome = "png"
  THEN [status |-> 200, contentType |-> "image/png", body |-> [png |-> CanvasOf(q)]]
  ELSE [status |-> 500, contentType |-> "image/png", body |-> [message |-> outcome]]

\* BannerController.getGuildBanner: the pipe rejects the query with 400
\* before the handler runs; the handler sends the buffer under the image
\* headers, or, from its catch block, 500 and a JSON body
getGuildBanner(q, outcome) ==
  IF ~Validates(q) THEN BadRequest
  ELSE IF outcome = "png"
  THEN [status |-> 200, contentType |-> "image/png", body |-> [png |-> CanvasOf(q)]]
  ELSE [status |-> 500, contentType |-> "application/json", body |-> [message |-> outcome]]

(* --------------------------- text of the overlay ----------------------- *)
\* longest upstream string handed to the text overlay, in characters
MaxText == 2
\* longest guild description handed to the truncation, in characters
MaxDescription == 102

\* a string is the sequence of its characters
XmlChars == {"<", ">", "&", "'", "\""}
TextChars == XmlChars \cup {"a"}
Texts == SeqsUpTo(TextChars, MaxText)

\* escapeXml, lines 818-831: the replacement of one character
Entity(c) ==
  IF c = "<" THEN <<"&", "l", "t", ";">>
  ELSE IF c = ">" THEN <<"&", "g", "t", ";">>
  ELSE IF c = "&" THEN <<"&", "a", "m", "p", ";">>
  ELSE IF c = "'" THEN <<"&", "a", "p", "o", "s", ";">>
  ELSE IF c = "\"" THEN <<"&", "q", "u", "o", "t", ";">>
  ELSE <<c>>

\* escapeXml, lines 810-833: '' for a falsy argument, else every one of the
\* five characters replaced
RECURSIVE escapeXml(_)
escapeXml(unsafe) ==
  IF unsafe = <<>> THEN <<>>
  ELSE Entity(Head(unsafe)) \o escapeXml(Tail(unsafe))

\* line 709: the character budget of the description
DescriptionBudget == 100
Ellipsis == <<".", ".", ".">>
Substring(d, n) == SubSeq(d, 1, IF Len(d) < n THEN Len(d) ELSE n)

\* a truncation that adds the ellipsis from the budget on
TruncatedFromBudget(d) ==
  Substring(d, DescriptionBudget) \o (IF Len(d) >= DescriptionBudget THEN Ellipsis ELSE <<>>)

\* line 709: `description.substring(0, 100)` followed by '...' if
\* `description.length > 100`
Truncated(d) ==
  Substring(d, DescriptionBudget) \o (IF Len(d) > DescriptionBudget THEN Ellipsis ELSE <<>>)

\* descriptions of every length up to MaxDescription, of recognisable content
Descriptions ==
  {[i \in 1..n |-> IF (i + k) % 3 = 0 THEN "a" ELSE IF (i + k) % 3 = 1 THEN "b" ELSE "."] :
      n \in 0..MaxDescription, k \in 0..2}

\* the upstream strings the text overlay interpolates, lines 663-756
UpstreamFields ==
  {"worldName", "pvpType", "location", "guildName", "founded", "description",
   "bossName", "rashidCity"}
\* those interpolated as `${this.escapeXml(...)}`, lines 663, 669, 738, 756
EscapedFields == {"worldName", "pvpType", "guildName", "bossName", "rashidCity"}

\* what the text overlay holds for the value of an upstream field
RenderField(field, value) ==
  IF field \in EscapedFields THEN escapeXml(value)
  ELSE IF field = "description" THEN Truncated(value)
  ELSE value

\* lines 672-676: `Atualizado em: ${updateDate}`, whatever the lang
TimestampText(lang, updateDate) == [label |-> "Atualizado em", date |-> updateDate]

(* ------------------------------- geometry ------------------------------ *)
\* GenerateBannerDto: @Min(800) @Max(2000) width, @Min(200) @Max(800) height
Widths == 800..2000
Heights == 200..800
\* every width with the smallest, the default and the largest height, and
\* every height with the smallest, the default and the largest width
CanvasSizes ==
  [width : Widths, height : {200, 300, 800}] \cup [width : {800, 1200, 2000}, height : Heights]

\* a rectangle, in hundredths of a pixel
Rect(x, y, w, h) == [x |-> x, y |-> y, w |-> w, h |-> h]
\* `Math.floor(size * percent / 100)` pixels, in hundredths
Floor(size, percent) == 100 * ((size * percent) \div 100)

\* the logo placed at 0.9 of the width
GeometryLogoRight(width, height) ==
  [background |-> Rect(0, 0, 100 * width, 100 * height),
   header |-> Rect(0, 0, 100 * width, 12 * height),
   content |-> Rect(1000, 14 * height, 62 * width, 82 * height),
   stats |-> Rect(64 * width + 1000, 14 * height, 35 * width - 2000, 82 * height),
   progressBarBg |-> Rect(2 * width, 26 * height, 58 * width, 6 * height),
   logo |-> Rect(Floor(width, 90), Floor(height, 40), 13000, 11000),
   boss |-> Rect(Floor(width, 80), Floor(height, 35), 8500, 8500),
   rashid |-> Rect(Floor(width, 70), Floor(height, 25), 10000, 10000),
   timestampBg |-> Rect(76 * width, 4 * height, 23 * width, 3 * height),
   rashidBg |-> Rect(76 * width, 62 * height, 21 * width, 20 * height),
   yasirBg |-> Rect(11 * width, 77 * height, 10 * width, 6 * height)]

\* generateBaseStructureSVG lines 497-514 (the rects of the base SVG) and
\* createFinalImageWithText lines 573-632 (logo, icons at their largest size
\* after `resize`, text-background rects)
Geometry(width, height) ==
  [background |-> Rect(0, 0, 100 * width, 100 * height),
   header |-> Rect(0, 0, 100 * width, 12 * height),
   content |-> Rect(1000, 14 * height, 62 * width, 82 * height),
   stats |-> Rect(64 * width + 1000, 14 * height, 35 * width - 2000, 82 * height),
   progressBarBg |-> Rect(2 * width, 26 * height, 58 * width, 6 * height),
   logo |-> Rect(Floor(width, 52), Floor(height, 40), 13000, 11000),
   boss |-> Rect(Floor(width, 80), Floor(height, 35), 8500, 8500),
   rashid |-> Rect(Floor(width, 70), Floor(height, 25), 10000, 10000),
   timestampBg |-> Rect(76 * width, 4 * height, 23 * width, 3 * height),
   rashidBg |-> Rect(76 * width, 62 * height, 21 * width, 20 * height),
   yasirBg |-> Rect(11 * width, 77 * height, 10 * width, 6 * height)]

IconLayers == {"logo", "boss", "rashid"}

(* ------------------------ two runs of the renderer --------------------- *)
\* latest clock reading at which a run of layout and composition starts
MaxRenderClock == 1

\* what generateBaseStructureSVG and createFinalImageWithText are given: the
\* aggregated data with its updateDate, the options and the icon buffers
RenderInputs ==
  [layers : LayerInputs, lang : {"pt", "en"},
   updateDate : {[locale |-> "pt-BR", at |-> t] : t \in 0..MaxRenderClock}]

\* a renderer that stamps the banner with the time of the run
RenderingClocked(a, clock) ==
  [base |-> [structure |-> BaseStructure, geometry |-> Geometry(1200, 300)],
   composites |-> createFinalImageWithText(a.layers).layers,
   text |-> [items |-> TextItems(a.layers.guild),
             labels |-> Labels(a.lang),
             bossName |-> BossNameOf(a.layers.boosted),
             timestamp |-> TimestampText(a.lang, [locale |-> "pt-BR", at |-> clock])]]

\* generateBaseStructureSVG and createFinalImageWithText run at time
\* `clock`: the base SVG, the composites in paint order and the text SVG;
\* neither function reads the clock, the timestamp is data.updateDate
Rendering(a, clock) ==
  [base |-> [structure |-> BaseStructure, geometry |-> Geometry(1200, 300)],
   composites |-> createFinalImageWithText(a.layers).layers,
   text |-> [items |-> TextItems(a.layers.guild),
             labels |-> Labels(a.lang),
             bossName |-> BossNameOf(a.layers.boosted),
             timestamp |-> TimestampText(a.lang, a.updateDate)]]

(* ------------------- layout over the aggregated data ------------------- *)
\* a 200 answer whose body lacks the expected record
NoRecord == [information |-> "not found"]
WorldShapes == WorldPayloads \cup {Placeholder("world"), NoRecord, NullPayload}
BossShapes == BossPayloads \cup {Placeholder("boss"), NoRecord, NullPayload}
RashidShapes == RashidPayloads \cup {Placeholder("rashid"), NoRecord, NullPayload}
ChangesShapes == ChangesPayloads \cup {Placeholder("changes"), NoRecord, NullPayload}
DataShapes ==
  [worldInfo : WorldShapes, boosted : BossShapes, rashidLocation : RashidShapes,
   worldChanges : ChangesShapes]

\* line 756: `rashidLocation?.city || ''`
RashidCityOf(r) == IF "city" \in DOMAIN r THEN r.city ELSE ""

\* generateBaseStructureSVG and createFinalImageWithText over the data of
\* an existing guild: line 440 throws for a null worldInfo, line 663 reads
\* `worldInfo.world.name` and throws a TypeError when there is no world
\* record; boss, Rashid and world changes are read with `?.`
ComposeOutcome(d) ==
  IF d.worldInfo = NullPayload THEN Err("SVG generation failed")
  ELSE IF "world" \notin DOMAIN d.worldInfo THEN Err("Final image creation failed")
  ELSE Ok([worldName |-> d.worldInfo.world.name,
           bossName |-> BossNameOf(d.boosted),
           rashidCity |-> RashidCityOf(d.rashidLocation),
           yasirIsActive |-> checkForYasir(d.worldChanges)])

(* ------------------ specification of single operations ----------------- *)
FnInputs ==
  {[fn |-> "checkForYasir", arg |-> p] : p \in YasirInputs}
    \cup {[fn |-> "loadAssets", arg |-> [files |-> f]] : f \in FileSystems}
    \cup {[fn |-> "onlinePercentage", arg |-> [players_online |-> po, members_total |-> mt]] :
            po \in 0..MaxMembers, mt \in 0..MaxMembers}
    \cup {[fn |-> "createFinalImageWithText", arg |-> a] : a \in LayerInputs}
    \cup {[fn |-> "labels", arg |-> [lang |-> l]] : l \in LangValues}
    \cup {[fn |-> "getGuildBanner", arg |-> a] : a \in ControllerInputs}
    \cup {[fn |-> "renderField", arg |-> [field |-> f, value |-> v]] :
            f \in UpstreamFields, v \in Texts}
    \cup {[fn |-> "truncate", arg |-> [description |-> d]] : d \in Descriptions}
    \cup {[fn |-> "timestamp", arg |-> [lang |-> l]] : l \in {"pt", "en"}}
    \cup {[fn |-> "layout", arg |-> c] : c \in CanvasSizes}
    \cup {[fn |-> "renderTwice", arg |-> [data |-> a, clock1 |-> c1, clock2 |-> c2]] :
            a \in RenderInputs, c1 \in 0..MaxRenderClock, c2 \in 0..MaxRenderClock}
    \cup {[fn |-> "compose", arg |-> d] : d \in DataShapes}

FnInit ==
  /\ credsConfigured = TRUE
  /\ now = 0
  /\ token = NoToken
  /\ tokenExpiry = NoExpiry
  /\ providerExpiry = NoExpiry
  /\ ntokens = 0
  /\ call = [c \in Calls |-> IdleCall]
  /\ rpc = "idle"
  /\ rerr = ""
  /\ world = ""
  /\ guildName = ""
  /\ showBoss = TRUE
  /\ fetch = [s \in TibiaSources |-> "idle"]
  /\ response = [s \in TibiaSources |-> NoRes]
  /\ results = [i \in 1..Len(Sources) |-> Pending]
  /\ data = NoData
  /\ bossImage = FALSE
  /\ lastSettled = "none"
  /\ \E i \in FnInputs : fn = i.fn /\ arg = i.arg
  /\ out = NotApplied

Returns(f, v) ==
  /\ fn = f
  /\ ~out.done
  /\ out' = Applied(v)
  /\ UNCHANGED <<authVars, bannerVars, fn, arg>>

ApplyCheckForYasir == Returns("checkForYasir", [yasirIsActive |-> checkForYasir(arg)])
ApplyLoadAssets == Returns("loadAssets", loadAssets(arg.files))
ApplyOnlinePercentage ==
  Returns("onlinePercentage", ProgressOf(arg.players_online, arg.members_total))
ApplyCreateFinalImage == Returns("createFinalImageWithText", createFinalImageWithText(arg))
ApplyLabels == Returns("labels", Labels(arg.lang))
ApplyGetGuildBanner == Returns("getGuildBanner", getGuildBanner(arg.query, arg.outcome))
ApplyRenderField == Returns("renderField", [text |-> RenderField(arg.field, arg.value)])
ApplyTruncate == Returns("truncate", [text |-> Truncated(arg.description)])
ApplyTimestamp == Returns("timestamp", TimestampText(arg.lang, UpdateDate))
ApplyLayout == Returns("layout", Geometry(arg.width, arg.height))
ApplyRenderTwice ==
  Returns("renderTwice", [first |-> Rendering(arg.data, arg.clock1),
                          second |-> Rendering(arg.data, arg.clock2)])
ApplyCompose == Returns("compose", ComposeOutcome(arg))

FnNext ==
  \/ ApplyCheckForYasir
  \/ ApplyLoadAssets
  \/ ApplyOnlinePercentage
  \/ ApplyCreateFinalImage
  \/ ApplyLabels
  \/ ApplyGetGuildBanner
  \/ ApplyRenderField
  \/ ApplyTruncate
  \/ ApplyTimestamp
  \/ ApplyLayout
  \/ ApplyRenderTwice
  \/ ApplyCompose

FnSpec == FnInit /\ [][FnNext]_vars

(* ------------------------------ properties ---------------------------- *)
Started(c) == call[c].pc # "idle"
Ended(c) == call[c].pc \in {"done", "failed"}
\* the errors of a call that are authentication failures
AuthErrors == {"NoCredentials", "AuthFailed", "RetryAuthFailed", "RetryRejected"}
AuthFailure(c) == call[c].pc = "failed" /\ call[c].res.err \in AuthErrors

\* C1: calls that overlap and all find the cached token absent or expired
\* issue one login exchange between them, and all send the token it returned.
C1_SingleFlight ==
  \A c1, c2 \in Calls :
    ( /\ c1 # c2
      /\ Started(c1) /\ Started(c2)
      /\ ~call[c1].hit /\ ~call[c2].hit
      /\ ~call[c1].got401 /\ ~call[c2].got401 )
    => /\ call[c1].logins + call[c2].logins <= 1
       /\ (call[c1].tok # NoToken /\ call[c2].tok # NoToken => call[c1].tok = call[c2].tok)

\* C2: a 401 on the first GET invalidates the cache, is followed by exactly
\* one login exchange and one retried GET, whose data is returned or whose
\* failure ends the call; no call issues more than 2 GETs or 2 logins.
C2_CallShape(c) ==
  LET first == IF call[c].hit THEN 0 ELSE 1
      k == call[c]
  IN  /\ k.gets <= 2 /\ k.logins <= 2
      /\ ~k.got401 => k.gets <= 1 /\ k.logins <= 1
      /\ k.got401 =>
            /\ k.pc \in {"login2", "get2", "done", "failed"}
            /\ k.logins = first + 1
            /\ k.pc = "login2" => k.gets = 1
            /\ k.pc = "get2" => k.gets = 2
            /\ k.pc = "done" => k.gets = 2 /\ k.res.ok /\ k.res.data \in PayloadsOf(c)
            /\ k.pc = "failed" =>
                  \/ k.res.err = "RetryAuthFailed" /\ k.gets = 1
                  \/ k.res.err \in {"RetryRejected", "RetryFailed"} /\ k.gets = 2
C2_RetryOnce ==
  /\ [](\A c \in Calls : C2_CallShape(c))
  /\ [][\A c \in Calls :
          (call[c].pc = "get1" /\ call'[c].got401) =>
             /\ token' = NoToken /\ tokenExpiry' = NoExpiry
             /\ call'[c].pc = "login2"]_vars
\* a call has retried after a 401 and returned the data of the retried GET
C2_Witness ==
  \E c \in Calls : call[c].got401 /\ call[c].pc = "done" /\ call[c].gets = 2

\* C3: a call that starts while a cached token is inside its validity window
\* issues no login exchange and sends the cached token; as long as it is
\* not answered 401 it never logs in, so two such calls add no login.
C3_TokenReuse ==
  /\ [][\A c \in Calls :
          (token # NoToken /\ now < tokenExpiry /\ ~Started(c) /\ Started(c)') =>
             /\ call'[c].pc = "get1"
             /\ call'[c].tok = token
             /\ call'[c].logins = 0
             /\ ntokens' = ntokens /\ token' = token]_vars
  /\ [](\A c \in Calls : (call[c].hit /\ ~call[c].got401) => call[c].logins = 0)
\* both calls of a later request were served with the token of one login
C3_Witness ==
  /\ ntokens = 1
  /\ \A c \in Calls : call[c].pc = "done" /\ call[c].hit /\ call[c].tok = 1
                         /\ call[c].logins = 0

\* C4: when a call ends in an authentication failure the cache is cleared
\* (token and tokenExpiry both absent), and token and tokenExpiry are always
\* both absent or both from the same login response.
C4_CacheClearedOnAuthFailure ==
  /\ [][\A c \in Calls :
          (~Ended(c) /\ AuthFailure(c)') => (token' = NoToken /\ tokenExpiry' = NoExpiry)]_vars
  /\ [](IF token = NoToken THEN tokenExpiry = NoExpiry
         ELSE tokenExpiry = providerExpiry - Skew)

\* C5: a token taken from the cache is sent only while now < expiresAt - 300 s,
\* where expiresAt = login time + expires_in, whatever expires_in was; the
\* stored tokenExpiry is login time + (expires_in - 300) s.
C5_Skew ==
  /\ [](token # NoToken => tokenExpiry = providerExpiry - 300)
  /\ [][\A c \in Calls :
          (~Started(c) /\ call'[c].pc = "get1") =>
             /\ call'[c].tok = token
             /\ now < providerExpiry - 300]_vars
\* a call was served from the cache inside the window
C5_Witness ==
  \E c \in Calls : call[c].hit /\ call[c].pc = "get1" /\ call[c].tok = token
                     /\ now < providerExpiry - 300 /\ now > 0

\* what upstream answered the fetch of source s, and whether it has
Response(s) ==
  IF s \in TibiaSources THEN response[s]
  ELSE IF s = "rashid" THEN call[RashidCall].res ELSE call[ChangesCall].res
HasSettled(s) ==
  IF s \in TibiaSources THEN fetch[s] = "settled"
  ELSE IF s = "rashid" THEN Ended(RashidCall) ELSE Ended(ChangesCall)
AllSettled == \A i \in 1..Len(Sources) : HasSettled(Sources[i])
GuildFetchFailed == HasSettled("guild") /\ ~response["guild"].ok
GuildEmpty ==
  HasSettled("guild") /\ response["guild"].ok /\ "guild" \notin DOMAIN response["guild"].data
\* generateBanner is past fetchData
PastFetchData ==
  \/ rpc \in {"bossImage", "rashidImage", "compose", "done"}
  \/ rpc = "failed" /\ rerr = "Final image creation failed"

\* C6: when the guild fetch fails, or answers without a guild record, the
\* request fails with the guild-not-found error whatever the other fetches
\* did; it never gets past fetchData and returns no image.
C6_GuildMandatory ==
  /\ GuildFetchFailed => rpc = "failed" /\ rerr = "GuildNotFound" /\ data = NoData
  /\ GuildEmpty =>
       /\ rpc \in {"fetchData", "failed"}
       /\ data = NoData
       /\ rpc = "failed" => rerr = "GuildNotFound"
       /\ AllSettled => rpc = "failed"
\* the guild fetch failed while another source had already been fetched
C6_Witness ==
  /\ GuildFetchFailed /\ rpc = "failed"
  /\ HasSettled("world") /\ response["world"].ok

\* C7: with guild info present, fetchData succeeds for every subset of
\* failed optional sources; a failed source carries its placeholder, a
\* successful one its fetched value.
C7_OptionalDegrade ==
  (AllSettled /\ HasSettled("guild") /\ response["guild"].ok /\ ~GuildEmpty) =>
    /\ data # NoData
    /\ PastFetchData
    /\ data.guildInfo = response["guild"].data
    /\ IF Response("world").ok THEN data.worldInfo = Response("world").data
       ELSE /\ data.worldInfo.world.name = world
            /\ data.worldInfo.world.players_online = 0
            /\ data.worldInfo.world.record_players = 0
    /\ IF Response("boss").ok THEN data.boosted = Response("boss").data
       ELSE data.boosted.boostable_bosses.boosted.name = "Unknown"
    /\ IF Response("rashid").ok THEN data.rashidLocation = Response("rashid").data
       ELSE data.rashidLocation.city = "Unknown"
    /\ IF Response("changes").ok THEN data.worldChanges = Response("changes").data
       ELSE data.worldChanges.changes = <<>>
\* fetchData returned with two sources degraded and two fetched
C7_Witness ==
  /\ data # NoData /\ AllSettled
  /\ ~Response("world").ok /\ Response("boss").ok
  /\ ~Response("rashid").ok /\ Response("changes").ok

\* C8: a request one of whose Firebot calls ended in an authentication
\* failure returns no image.
C8_AuthFailureFatal ==
  (\E c \in Calls : AuthFailure(c)) => rpc # "done"

\* C9: layout and composition run only once all five fetches have settled.
C9_JoinBeforeLayout ==
  PastFetchData =>
    /\ AllSettled
    /\ \A i \in 1..Len(Sources) : results[i] # Pending
\* composition is under way on data of which one source was degraded
C9_Witness ==
  /\ rpc = "compose" /\ AllSettled
  /\ ~Response("boss").ok

\* C10: whichever fetch completes last, each field of the data is the
\* answer to its own fetch, and yasirIsActive is derived from the answer to
\* the world-changes fetch.
Expected(s) == IF Response(s).ok THEN Response(s).data ELSE Placeholder(s)
C10_OrderIndependent ==
  data # NoData =>
    /\ data.worldInfo = Expected("world")
    /\ data.guildInfo = Expected("guild")
    /\ data.boosted = Expected("boss")
    /\ data.rashidLocation = Expected("rashid")
    /\ data.worldChanges = Expected("changes")
    /\ data.yasirIsActive = checkForYasir(Expected("changes"))
\* the first element of the array was the last to complete
C10_Witness ==
  /\ data # NoData /\ lastSettled = "world"
  /\ data.yasirIsActive

\* generateBanner has been called with both arguments and has not returned
AwaitingAssets == rpc = "loadAssets" /\ world # "" /\ guildName # ""

\* C11: asset resolution and the data fetches run concurrently: while
\* loadAssets is pending the fetches have been issued, they do not wait for it.
C11_AssetsConcurrent ==
  AwaitingAssets => \A s \in TibiaSources : fetch[s] # "idle"

\* the steps that need no answer from an upstream: the clock, the file reads
\* of loadAssets and getRashidImage, and the composition
FairSpec ==
  /\ Init /\ [][Next]_vars
  /\ WF_vars(Tick)
  /\ WF_vars(LoadAssetsDone \/ LoadAssetsFails)
  /\ WF_vars(RashidImageDone)
  /\ WF_vars(\E ok \in BOOLEAN : ComposeDone(ok))

\* generateBanner is waiting for an upstream answer
AwaitingUpstream == rpc \in {"fetchData", "bossImage"}

\* C12: no operation blocks indefinitely: a request waiting for an upstream
\* eventually returns or fails, even if the upstream never answers.
C12_NoIndefiniteBlock == AwaitingUpstream ~> (rpc \in {"done", "failed"})

\* the boss icon was planned (flag set, image_url present) and its download
\* or processing failed
BossLayerFailed ==
  /\ data # NoData
  /\ showBoss /\ HasImageUrl(data.boosted)
  /\ rpc \in {"rashidImage", "compose", "done"}
  /\ ~bossImage

\* C18: a request one of whose planned layers could not be processed does not
\* return an image.
C18_NoSilentSkip == BossLayerFailed => rpc # "done"

\* the operation f has been applied to its arguments
Returned(f) == fn = f /\ out.done

\* an element of a world-change list carries the marker: a string element,
\* or a record with it in name or description
CarriesMarker(ch) ==
  \/ ch.k = "str" /\ IncludesMarker(ch.v)
  \/ ch.k = "obj" /\ (IncludesMarker(ch.name) \/ IncludesMarker(ch.description))

ChangesOf(p) == IF "changes" \in DOMAIN p THEN p.changes ELSE <<>>

\* C13: checkForYasir returns true exactly when some element of the changes
\* list carries the marker, whatever the other elements are, and false for
\* the empty list, for null and for lists without a marker.
C13_YasirDetected ==
  (Returned("checkForYasir") /\ "world_changes" \notin DOMAIN arg)
    => (out.val.yasirIsActive
          <=> \E i \in 1..Len(ChangesOf(arg)) : CarriesMarker(ChangesOf(arg)[i]))

\* the first base path, in order, holding a readable candidate of one asset
FirstReadable(files, themed, generic) ==
  LET locs == {l \in possiblePaths : ReadWithFallback(files, l, themed, generic) # NotRead}
  IN  IF locs = {} THEN NotRead
      ELSE ReadWithFallback(files, CHOOSE l \in locs : \A m \in locs : l <= m, themed, generic)

\* C14: logo and background are each resolved on their own to their first
\* readable candidate; loadAssets fails only if one of them has none.
C14_PerAssetResolution ==
  Returned("loadAssets")
    => LET logo == FirstReadable(arg.files, logoFile, "logo.png")
           background == FirstReadable(arg.files, backgroundFile, "image.png")
       IN  IF logo = NotRead \/ background = NotRead
           THEN ~out.val.ok
           ELSE out.val = Ok([fbotImageBase64 |-> logo, backgroundImageBase64 |-> background])

\* C15: the percentage of the progress bar and of the label is
\* round(playersOnline / membersTotal * 100), and 0 when membersTotal is 0.
C15_PercentageGuarded ==
  Returned("onlinePercentage")
    => LET pct == IF arg.members_total = 0 THEN Num(0)
                  ELSE Num(RoundDiv(100 * arg.players_online, arg.members_total))
       IN  out.val.fill = pct /\ out.val.label = pct

\* C16: no panel is painted after the logo or an icon, the logo is painted
\* before the icons, and the text overlay is the last layer.
C16_LayerOrder ==
  Returned("createFinalImageWithText")
    => LET L == out.val.layers
       IN  /\ \A i, j \in 1..Len(L) :
                 (i < j /\ L[i].kind = "image") => L[j].kind \in {"image", "text"}
           /\ \A i, j \in 1..Len(L) : (i < j /\ L[j].name = "logo") => L[i].kind # "image"
           /\ L[Len(L)].kind = "text"
           /\ \A i \in 1..(Len(L) - 1) : L[i].kind # "text"

Painted(name) == \E i \in 1..Len(out.val.layers) : out.val.layers[i].name = name
Written(item) == \E i \in 1..Len(out.val.text) : out.val.text[i] = item
NoBossLayer == ~Painted("boss") /\ ~Written("bossLabel") /\ ~Written("bossName")

\* C17: without showBoss, or with the boss degraded to its placeholder, no
\* boss icon, label or name is rendered; without showLogo no logo; founded
\* date and description only when the guild has them.
C17_OptionalLayers ==
  Returned("createFinalImageWithText")
    => /\ ~arg.showBoss => NoBossLayer
       /\ arg.boosted = Placeholder("boss") => NoBossLayer
       /\ ~arg.showLogo => ~Painted("logo")
       /\ Written("founded") <=> arg.guild.founded # ""
       /\ Written("description") <=> arg.guild.description # ""

ImageReply(q) ==
  [status |-> 200, contentType |-> "image/png", body |-> [png |-> CanvasOf(q)]]
ErrorReply(r, status) ==
  /\ r.status = status
  /\ r.contentType = "application/json"
  /\ DOMAIN r.body = {"message"}

\* C19 as stated: every request is answered with 200, image/png and the
\* buffer of the requested canvas, or with 500 and a JSON message.
C19_ImageOr500 ==
  Returned("getGuildBanner")
    => \/ out.val = ImageReply(arg.query)
       \/ ErrorReply(out.val, 500)

\* C19: a request the validation pipe rejects is answered with 400 and a
\* JSON message; a request that reaches the handler is answered with 200,
\* image/png and the buffer of exactly the requested canvas (1200 x 300 by
\* default) if generateBanner returned, and with 500 and a JSON message
\* carrying the error, without image headers or bytes, if a stage failed.
C19_ReplyShape ==
  Returned("getGuildBanner")
    => IF ~Validates(arg.query) THEN ErrorReply(out.val, 400)
       ELSE IF arg.outcome = "png" THEN out.val = ImageReply(arg.query)
       ELSE ErrorReply(out.val, 500) /\ out.val.body.message = arg.outcome

C19_Witness ==
  /\ Returned("getGuildBanner")
  /\ Validates(arg.query) /\ arg.query.width = 2000
  /\ arg.outcome = "Final image creation failed"
  /\ out.val.status = 500

LabelsPt ==
  [membersOnline |-> "Membros Online", boostedBoss |-> "Boss do Dia",
   playersOnline |-> "Jogadores Online", record |-> "Recorde", founded |-> "Fundado em"]

\* no theme-specific file is readable, a base path holds the generic ones
OnlyGenericAssets(files) ==
  /\ \A l \in possiblePaths : At(l, logoFile) \notin files /\ At(l, backgroundFile) \notin files
  /\ \E l \in possiblePaths : At(l, "logo.png") \in files /\ At(l, "image.png") \in files

\* C20: a lang that is no key of the locale table renders the complete pt
\* label set, and a theme without files of its own resolves the generic logo
\* and background; neither fails nor renders a missing label.
C20_Fallback ==
  /\ (Returned("labels") /\ arg.lang \notin {"pt", "en"}) => out.val = LabelsPt
  /\ (Returned("loadAssets") /\ OnlyGenericAssets(arg.files))
       => /\ out.val.ok
          /\ out.val.data.fbotImageBase64.file = "logo.png"
          /\ out.val.data.backgroundImageBase64.file = "image.png"

\* a call ended with 'Firebot API credentials not configured' (line 119)
CredentialsMissing(c) == call[c].pc = "failed" /\ call[c].res = Err("NoCredentials")

\* C21: the client that was constructed has all its mandatory configuration:
\* no request meets a configuration-missing error.
C21_ConfigFailFast == \A c \in Calls : ~CredentialsMissing(c)

\* this step ends call c with the error of its first GET (not a 401) or of
\* its first login exchange
FailsUnretried(c) ==
  /\ call[c].pc \in {"get1", "login1"}
  /\ call'[c].pc = "failed"
  /\ call'[c].res.err \in {"RequestFailed", "AuthFailed"}

\* C26: a GET failure other than 401 and a failure of the initial login are
\* rethrown after exactly one attempt, and the step leaves token and
\* tokenExpiry as they were.
C26_NoRetryCacheKept ==
  [][\A c \in Calls :
       FailsUnretried(c)
         => /\ token' = token /\ tokenExpiry' = tokenExpiry
            /\ call'[c].gets = call[c].gets /\ call'[c].logins = call[c].logins
            /\ ~call'[c].got401
            /\ call'[c].res.err = "RequestFailed" => call'[c].gets = 1 /\ call'[c].logins <= 1
            /\ call'[c].res.err = "AuthFailed" => call'[c].gets = 0 /\ call'[c].logins = 1]_vars

C26_Witness ==
  \E c \in Calls :
    /\ call[c].pc = "failed" /\ call[c].res = Err("RequestFailed")
    /\ call[c].gets = 1
    /\ token # NoToken /\ token = call[c].tok /\ tokenExpiry # NoExpiry

\* this step handles the 401 of a call whose token is no longer the cached one
StaleUnauthorized(c) ==
  /\ call[c].pc = "get1"
  /\ call'[c].got401
  /\ token # NoToken /\ token # call[c].tok

\* C27: a 401 for a token that has been replaced in the cache meanwhile
\* neither clears the newer token nor issues another login exchange.
C27_StaleUnauthorizedIgnored ==
  [][\A c \in Calls :
       StaleUnauthorized(c) => token' = token /\ call'[c].logins = call[c].logins]_vars

C23_Truncation ==
  Returned("truncate")
    => LET d == arg.description
           r == out.val.text
       IN  /\ Len(d) <= 100 => r = d
           /\ Len(d) > 100 => r = SubSeq(d, 1, 100) \o <<".", ".", ".">>
           /\ Len(r) <= 103

C23_Witness ==
  /\ Returned("truncate")
  /\ Len(arg.description) = 101
  /\ Len(out.val.text) = 103

ReferenceCanvases ==
  {[width |-> 1200, height |-> 300], [width |-> 800, height |-> 200],
   [width |-> 2000, height |-> 800]}

\* C24: the position and size of every layer are fixed fractions of the
\* canvas: x and w over width, y and h over height are the same on any two
\* canvases.
C24_FractionalGeometry ==
  Returned("layout")
    => \A c \in ReferenceCanvases : \A l \in DOMAIN out.val :
         LET g == out.val[l]
             r == Geometry(c.width, c.height)[l]
         IN  /\ g.x * c.width = r.x * arg.width
             /\ g.w * c.width = r.w * arg.width
             /\ g.y * c.height = r.y * arg.height
             /\ g.h * c.height = r.h * arg.height

\* C25: the timestamp and its label are in the locale of the request:
\* Portuguese for lang = 'pt', English for lang = 'en'.
C25_TimestampLocale ==
  Returned("timestamp")
    => /\ arg.lang = "pt" => out.val.label = "Atualizado em" /\ out.val.date.locale = "pt-BR"
       /\ arg.lang = "en" => out.val.label # "Atualizado em" /\ out.val.date.locale # "pt-BR"

\* C28: on every canvas the validator accepts, the logo, the boss icon and
\* the NPC icon lie inside the canvas.
C28_IconsInside ==
  Returned("layout")
    => \A l \in IconLayers :
         /\ out.val[l].x >= 0 /\ out.val[l].y >= 0
         /\ out.val[l].x + out.val[l].w <= 100 * arg.width
         /\ out.val[l].y + out.val[l].h <= 100 * arg.height

C28_Witness ==
  /\ Returned("layout")
  /\ arg.width = 800 /\ arg.height = 200
  /\ out.val.logo.y + out.val.logo.h = 19000

Entities == {Entity(c) : c \in XmlChars}
\* none of < > ' " and no & that does not start one of the five entities
WellEscaped(text) ==
  \A i \in 1..Len(text) :
    /\ text[i] \notin {"<", ">", "'", "\""}
    /\ text[i] = "&"
         => \E e \in Entities :
              /\ i + Len(e) - 1 <= Len(text)
              /\ SubSeq(text, i, i + Len(e) - 1) = e

\* C29: what the text overlay holds for an upstream string went through
\* escapeXml and is free of markup.
C29_UpstreamEscaped == Returned("renderField") => WellEscaped(out.val.text)

\* C30: with the guild present, layout and composition complete whatever
\* the optional sources delivered: placeholder, payload without the expected
\* record, or null.
C30_OnlyGuildFatal == Returned("compose") => out.val.ok

====
